---- MODULE Spec2Model ----
(***************************************************************************)
(* Model of script_clean_single.py: the worker loop (exponential backoff   *)
(* and watchdog), one scrape cycle (run_once) with its session set-up,     *)
(* extraction, de-duplication against the seen store, notification and     *)
(* cleanup.                                                                *)
(***************************************************************************)
EXTENDS Integers, Sequences, FiniteSets, TLC

\* ------------------------------------------------------------------------
\* Program constants
\* ------------------------------------------------------------------------
BaseBackoff == 120
MaxBackoff == 900
CheckInterval == 60

\* ------------------------------------------------------------------------
\* Bounds of the model
\* ------------------------------------------------------------------------
\* cycles a run of the worker may start
MaxCycles == 4
\* cards on one dashboard page
MaxCards == 3
\* the configured WATCHDOG_RESTART_SECONDS when the uptime watchdog is enabled
UptimeCeiling == 300
\* the configured WATCHDOG_MAX_CYCLES when the cycle watchdog is enabled
CycleCeiling == 2
\* wall-clock seconds one cycle may take: shorter or longer than the interval
ShortCycle == 30
LongCycle == 90
\* cycles of one run in which the browser, the context and the page come up
MaxSessions == 2

Ids == {"p1", "p2"}

CycleDurations == {ShortCycle, LongCycle}

Min(a, b) == IF a <= b THEN a ELSE b
Max(a, b) == IF a >= b THEN a ELSE b

\* ------------------------------------------------------------------------
\* Configuration (class Config, read once from the environment)
\* ------------------------------------------------------------------------
Configs ==
    [env_ok : BOOLEAN,
     WATCHDOG_RESTART_SECONDS : {0, UptimeCeiling},
     WATCHDOG_MAX_CYCLES : {0, CycleCeiling}]

\* validate_env: every required variable is set
validate_env(c) == c.env_ok

\* ------------------------------------------------------------------------
\* Records, cards and the seen store
\* ------------------------------------------------------------------------
\* A project as the program holds it. dict says isinstance(p, dict); an entry
\* read from the file may be a non-dict (dict = FALSE) or a dict without id.
Project(i, t) == [dict |-> TRUE, id |-> i, title |-> t]

\* a title that is not trimmed
StripNothing(s) == s

\* str.strip() on the title texts of the model ("" empty, " " blank, "A" text)
Strip(s) == IF s = " " THEN "" ELSE s

\* The data-ajax-post attribute as the path segments between its slashes:
\* <<>> is a card without the like button, <<"need">> an attribute "/need/"
\* that the selector matches and the pattern does not.
AjaxValues == {<<>>, <<"need">>} \cup {<<"need", i, "like">> : i \in Ids}

\* like_btn.count() > 0 for "[data-ajax-post*='need/']"
HasLikeBtn(ajax) == \E k \in 1..Len(ajax) : ajax[k] = "need"

\* re.search(r"/need/([^/]+)/", ajax): group 1 of the leftmost match, "" for None
MatchNeedId(ajax) ==
    LET hits == {k \in 1..(Len(ajax) - 1) : ajax[k] = "need" /\ ajax[k + 1] # ""}
    IN  IF hits = {} THEN ""
        ELSE ajax[(CHOOSE k \in hits : \A j \in hits : k <= j) + 1]

\* A div.card-block of the dashboard.
\*   inline : it contains a .need-card-inline element
\*   fault  : "stale"    every access to the card raises
\*            "title"    reading the title raises
\*            "optional" reading one of the optional fields raises
Cards ==
    [inline : BOOLEAN,
     fault : {"none", "stale", "title", "optional"},
     title : {"", " ", "A"},
     ajax : AjaxValues]

GoodCard(i) ==
    [inline |-> TRUE, fault |-> "none", title |-> "A", ajax |-> <<"need", i, "like">>]

\* extract_project_data_from_card: <<>> for None, else the one record
extract_project_data_from_card(card) ==
    IF card.fault \in {"stale", "title"} THEN <<>>
    ELSE IF Strip(card.title) = "" THEN <<>>
    ELSE LET project_id == IF HasLikeBtn(card.ajax) THEN MatchNeedId(card.ajax) ELSE ""
         IN  IF project_id = "" THEN <<>>
             ELSE IF card.fault = "optional" THEN <<>>
             ELSE <<Project(project_id, Strip(card.title))>>

RECURSIVE ScanCards(_)
ScanCards(cards) ==
    IF cards = <<>> THEN <<>>
    ELSE LET card == Head(cards)
             proj == IF ~card.inline THEN <<>> ELSE extract_project_data_from_card(card)
             kept == IF proj # <<>> /\ proj[1].id # "" /\ proj[1].title # "" THEN proj ELSE <<>>
         IN  kept \o ScanCards(Tail(cards))

\* scan_for_projects: wait is the outcome of wait_for_selector ("ok", "timeout"
\* or "error"); a stale card raises at the .need-card-inline check of the loop,
\* outside extract_project_data_from_card, and the handler returns [].
scan_for_projects(cards, wait) ==
    IF wait # "ok" THEN <<>>
    ELSE IF \E k \in 1..Len(cards) : cards[k].fault = "stale" THEN <<>>
    ELSE ScanCards(cards)

\* filter_new_projects without the test against seen_ids
filter_all_projects(all_projects, seen_projects) ==
    LET keep(p) == p.dict /\ p.id # ""
    IN  SelectSeq(all_projects, keep)

\* filter_new_projects
filter_new_projects(all_projects, seen_projects) ==
    LET seen_ids == {seen_projects[k].id : k \in
                       {j \in 1..Len(seen_projects) :
                          seen_projects[j].dict /\ seen_projects[j].id # ""}}
        keep(p) == p.dict /\ p.id # "" /\ p.id \notin seen_ids
    IN  SelectSeq(all_projects, keep)

\* The seen-store file: kind "missing", "malformed" (not JSON), "object" (JSON,
\* not a list) or "list" with its entries in data.
NoFile == [kind |-> "missing", data |-> <<>>]
ListFile(d) == [kind |-> "list", data |-> d]

\* load_seen_projects that returns whatever the file holds
load_unchecked(file, read) == IF file.kind = "missing" THEN <<>> ELSE file.data

\* load_seen_projects: read is "ok" or "error" (open or read raises)
load_seen_projects(file, read) ==
    IF file.kind = "missing" THEN <<>>
    ELSE IF read # "ok" \/ file.kind = "malformed" THEN <<>>
    ELSE IF file.kind # "list" THEN <<>>
    ELSE LET isdict(p) == p.dict IN SelectSeq(file.data, isdict)

\* save_seen_projects: the file after the call. write is "ok", "open_error"
\* (open raises, the file is untouched) or "dump_error" (the file was truncated
\* by open and the dump did not complete).
save_seen_projects(projects, file, write) ==
    LET valid(p) == p.dict /\ p.id # ""
    IN  IF write = "open_error" THEN file
        ELSE IF write = "dump_error" THEN [kind |-> "malformed", data |-> <<>>]
        ELSE ListFile(SelectSeq(projects, valid))

\* The cards the dashboard shows in the cycles of the worker: two postings, a
\* card whose title is blank and a card that went stale.
DashboardCards ==
    {GoodCard(i) : i \in Ids}
      \cup {[inline |-> TRUE, fault |-> "none", title |-> " ", ajax |-> <<"need", "p1", "like">>],
            [inline |-> TRUE, fault |-> "stale", title |-> "A", ajax |-> <<"need", "p2", "like">>]}

RECURSIVE SeqsUpTo(_, _)
SeqsUpTo(S, n) ==
    IF n = 0 THEN {<<>>}
    ELSE LET shorter == SeqsUpTo(S, n - 1)
         IN  shorter \cup {Append(q, x) : q \in {r \in shorter : Len(r) = n - 1}, x \in S}

Pages == SeqsUpTo(DashboardCards, MaxCards)

\* ------------------------------------------------------------------------
\* State
\* ------------------------------------------------------------------------
VARIABLES
    cfg,                  \* Config
    db_file,              \* seen_projects.json
    state_file,           \* STORAGE_STATE_FILE: whether it exists and which session of
                          \*   this run wrote it (0: it was there when the run began)
    now,                  \* time.time()
    cycle_seconds,        \* how long one cycle takes on this host
    \* worker_loop
    pc,                   \* "start", "loop", "cycle", "schedule", "watchdog", "sleep", "exit"
    start_time, cycle_start, cycle_count,
    backoff_seconds, consecutive_failures,
    success, sleep_for, uptime,
    exit_status,          \* 0 while the process runs
    \* run_once
    rpc,                  \* position in run_once, "idle" outside a cycle
    engine,               \* sync_playwright(): "off", "running", "stopped"
    browser, context, page,  \* "none" (None), "open", "closed", "dead"
    pending,              \* how control leaves the with block: "none", "true", "false",
                          \*   "timeout" (PlaywrightTimeoutError), "error" (Exception)
    result,               \* return value of run_once: "none", "true", "false", "raise"
    seen_projects, all_projects, new_projects,
    idx,                  \* position of the for loop over new_projects
    session,              \* what setup_session did in this cycle
    \* history
    trace,                \* events of the current cycle, in order
    prev,                 \* the extraction of the previous cycle
    sessions,             \* cycles so far in which the page came up
    leaked,               \* a browser, context or page outlived its cycle
    told,                 \* the ids send_notification was called with in the cycles
                          \*   before this one; ok: no read or write of the seen
                          \*   store has failed in them
    call                  \* a function of the program applied on its own: its
                          \*   arguments and, once it returned, its result

supervisor == <<pc, start_time, cycle_start, cycle_count, backoff_seconds,
                consecutive_failures, success, sleep_for, uptime, exit_status>>
resources == <<engine, browser, context, page>>
locals == <<seen_projects, all_projects, new_projects, idx>>
vars == <<call, cfg, db_file, state_file, now, cycle_seconds, supervisor, rpc, resources, pending, result,
          locals, session, trace, prev, sessions, leaked, told>>

Event(e, a) == [e |-> e, a |-> a]

NoSession == [restored |-> FALSE, marker |-> FALSE, typed |-> {}, clicked |-> {},
              wrote |-> FALSE, outcome |-> "none"]

NoPrev == [ran |-> FALSE, all |-> <<>>]

NoneTold == [ok |-> TRUE, ids |-> {}]

\* no function is applied on its own while the worker runs
NoCall == [fn |-> "none", done |-> FALSE, all |-> <<>>, seen |-> <<>>, cards |-> <<>>,
           wait |-> "ok", out |-> <<>>]

NoStateFile == [exists |-> FALSE, by |-> 0]
StateFileBy(k) == [exists |-> TRUE, by |-> k]

\* The files the process finds when it starts.
InitialStores ==
    {NoFile, [kind |-> "object", data |-> <<>>],
     ListFile(<<[dict |-> FALSE, id |-> "", title |-> ""], Project("p2", "A")>>)}

Init ==
    /\ cfg \in Configs
    /\ db_file \in InitialStores
    /\ state_file \in {NoStateFile, StateFileBy(0)}
    /\ now = 0
    /\ cycle_seconds \in CycleDurations
    /\ pc = "start"
    /\ start_time = 0 /\ cycle_start = 0 /\ cycle_count = 0
    /\ backoff_seconds = 0 /\ consecutive_failures = 0
    /\ success = FALSE /\ sleep_for = 0 /\ uptime = 0
    /\ exit_status = 0
    /\ rpc = "idle"
    /\ engine = "off" /\ browser = "none" /\ context = "none" /\ page = "none"
    /\ pending = "none" /\ result = "none"
    /\ seen_projects = <<>> /\ all_projects = <<>> /\ new_projects = <<>> /\ idx = 0
    /\ session = NoSession
    /\ trace = <<>>
    /\ prev = NoPrev
    /\ sessions = 0
    /\ leaked = FALSE
    /\ told = NoneTold
    /\ call = NoCall

history == <<prev, sessions, leaked, told>>
cycle_vars == <<rpc, resources, pending, result, locals, session, trace, history>>
files == <<db_file, state_file>>

\* ------------------------------------------------------------------------
\* worker_loop
\* ------------------------------------------------------------------------
\* __main__ and worker_loop up to the head of its first iteration
Main ==
    /\ pc = "start"
    /\ IF ~validate_env(cfg)
         THEN /\ pc' = "exit"
              /\ exit_status' = 1
              /\ UNCHANGED <<start_time, cycle_start, cycle_count, backoff_seconds,
                             consecutive_failures>>
         ELSE /\ pc' = "loop"
              /\ start_time' = now
              /\ cycle_start' = now
              /\ cycle_count' = 0
              /\ backoff_seconds' = BaseBackoff
              /\ consecutive_failures' = 0
              /\ UNCHANGED exit_status
    /\ UNCHANGED <<call, cfg, cycle_seconds, files, now, success, sleep_for, uptime, cycle_vars>>

\* success: reset the backoff and sleep the rest of the interval
ScheduleSuccess(elapsed) ==
    /\ consecutive_failures' = 0
    /\ backoff_seconds' = BaseBackoff
    /\ sleep_for' = Max(0, CheckInterval - elapsed)

\* ScheduleFailure without the cap on the doubled delay
ScheduleFailureNoCap(elapsed) ==
    /\ consecutive_failures' = consecutive_failures + 1
    /\ sleep_for' = backoff_seconds
    /\ backoff_seconds' = backoff_seconds * 2

\* failure: sleep the current backoff, then double it up to the cap
ScheduleFailure(elapsed) ==
    /\ consecutive_failures' = consecutive_failures + 1
    /\ sleep_for' = backoff_seconds
    /\ backoff_seconds' = Min(backoff_seconds * 2, MaxBackoff)

Schedule ==
    /\ pc = "schedule"
    /\ LET elapsed == now - cycle_start
       IN  IF success THEN ScheduleSuccess(elapsed) ELSE ScheduleFailure(elapsed)
    /\ pc' = "watchdog"
    /\ UNCHANGED <<call, cfg, cycle_seconds, files, now, start_time, cycle_start, cycle_count, success, uptime,
                   exit_status, cycle_vars>>

\* UptimeExceeded with > for >=
UptimeExceededStrict(c, up) ==
    c.WATCHDOG_RESTART_SECONDS > 0 /\ up > c.WATCHDOG_RESTART_SECONDS

UptimeExceeded(c, up) ==
    c.WATCHDOG_RESTART_SECONDS > 0 /\ up >= c.WATCHDOG_RESTART_SECONDS

\* CyclesExceeded with > for >=
CyclesExceededStrict(c, n) ==
    c.WATCHDOG_MAX_CYCLES > 0 /\ n > c.WATCHDOG_MAX_CYCLES

CyclesExceeded(c, n) ==
    c.WATCHDOG_MAX_CYCLES > 0 /\ n >= c.WATCHDOG_MAX_CYCLES

WatchdogUptime ==
    /\ pc = "watchdog"
    /\ uptime' = now - start_time
    /\ UptimeExceeded(cfg, uptime')
    /\ pc' = "exit"
    /\ exit_status' = 1
    /\ UNCHANGED <<call, cfg, cycle_seconds, files, now, start_time, cycle_start, cycle_count, backoff_seconds,
                   consecutive_failures, success, sleep_for, cycle_vars>>

WatchdogCycles ==
    /\ pc = "watchdog"
    /\ uptime' = now - start_time
    /\ ~UptimeExceeded(cfg, uptime')
    /\ CyclesExceeded(cfg, cycle_count)
    /\ pc' = "exit"
    /\ exit_status' = 1
    /\ UNCHANGED <<call, cfg, cycle_seconds, files, now, start_time, cycle_start, cycle_count, backoff_seconds,
                   consecutive_failures, success, sleep_for, cycle_vars>>

WatchdogPass ==
    /\ pc = "watchdog"
    /\ uptime' = now - start_time
    /\ ~UptimeExceeded(cfg, uptime')
    /\ ~CyclesExceeded(cfg, cycle_count)
    /\ pc' = "sleep"
    /\ UNCHANGED <<call, cfg, cycle_seconds, files, now, start_time, cycle_start, cycle_count, backoff_seconds,
                   consecutive_failures, success, sleep_for, exit_status, cycle_vars>>

\* time.sleep(sleep_for), then the head of the next iteration
Sleep ==
    /\ pc = "sleep"
    /\ now' = now + sleep_for
    /\ cycle_start' = now'
    /\ success' = FALSE
    /\ result' = "none"
    /\ pc' = "loop"
    /\ UNCHANGED <<call, cfg, cycle_seconds, files, start_time, cycle_count, backoff_seconds,
                   consecutive_failures, sleep_for, uptime, exit_status, rpc, resources,
                   pending, locals, session, trace, history>>

\* ------------------------------------------------------------------------
\* run_once
\* ------------------------------------------------------------------------
outer == <<call, cfg, now, cycle_seconds, start_time, cycle_count, backoff_seconds, consecutive_failures,
           sleep_for, uptime, exit_status>>

\* The loop head calls run_once; an exception raised by the statements before
\* the try block of run_once leaves it at once.
CycleStart ==
    /\ pc = "loop"
    /\ cycle_count < MaxCycles
    /\ pc' = "cycle"
    /\ trace' = <<>>
    /\ engine' = "off" /\ browser' = "none" /\ context' = "none" /\ page' = "none"
    /\ pending' = "none"
    /\ seen_projects' = <<>> /\ all_projects' = <<>> /\ new_projects' = <<>> /\ idx' = 0
    /\ session' = NoSession
    /\ \E raised \in BOOLEAN :
         IF raised THEN rpc' = "done" /\ result' = "raise"
                   ELSE rpc' = "acquire" /\ result' = "none"
    /\ UNCHANGED <<outer, files, cycle_start, success, history>>

\* The calls of the acquisition that may raise, and what each raises: a
\* PlaywrightTimeoutError ("timeout") or another Exception ("error").
AcquireFailures == {"none", "engine", "launch", "context", "page"}
Raises(fail) == IF fail \in {"launch", "page"} THEN "timeout" ELSE "error"

\* sync_playwright().__enter__, launch, new_context (with the storage state
\* when the file exists), new_page; fail names the call that raises.
Acquire ==
    /\ rpc = "acquire"
    /\ \E fail \in AcquireFailures :
         /\ fail = "none" => sessions < MaxSessions
         /\ sessions' = IF fail = "none" THEN sessions + 1 ELSE sessions
         /\ engine' = IF fail = "engine" THEN "off" ELSE "running"
         /\ browser' = IF fail \in {"engine", "launch"} THEN "none" ELSE "open"
         /\ context' = IF fail \in {"engine", "launch", "context"} THEN "none" ELSE "open"
         /\ page' = IF fail = "none" THEN "open" ELSE "none"
         /\ session' = [session EXCEPT !.restored =
                          (state_file.exists /\ fail \in {"none", "page"})]
         /\ pending' = IF fail = "none" THEN "none" ELSE Raises(fail)
         /\ rpc' = CASE fail = "none" -> "goto"
                     [] fail = "engine" -> "except"
                     [] OTHER -> "with_exit"
         /\ trace' = IF fail # "none" /\ Raises(fail) = "timeout"
                       THEN Append(trace, Event("timeout", fail)) ELSE trace
    /\ UNCHANGED <<outer, files, pc, cycle_start, success, result, locals, prev, leaked, told>>

\* setup_session: page.goto of the dashboard
SessionGoto ==
    /\ rpc = "goto"
    /\ \E nav \in {"ok", "timeout", "error"} :
         /\ rpc' = IF nav = "ok" THEN "is_logged_in" ELSE "session_done"
         /\ session' = IF nav = "ok" THEN session ELSE [session EXCEPT !.outcome = "failed"]
         /\ trace' = IF nav = "timeout" THEN Append(trace, Event("timeout", "goto")) ELSE trace
    /\ UNCHANGED <<outer, files, pc, cycle_start, success, resources, pending, result,
                   locals, history>>

\* setup_session without the early return
AfterMarkerAlwaysLogin(marker) == "login"

\* setup_session that looks for the marker until it shows
AfterMarkerPolls(marker) == IF marker THEN "session_done" ELSE "is_logged_in"

\* setup_session after is_logged_in(page): return True at once when the
\* marker shows, else go through perform_login
AfterMarker(marker) == IF marker THEN "session_done" ELSE "login"

\* is_logged_in: the marker can only show when a stored session was restored
IsLoggedIn ==
    /\ rpc = "is_logged_in"
    /\ \E marker \in (IF session.restored THEN BOOLEAN ELSE {FALSE}) :
         /\ session' = [session EXCEPT !.marker = marker,
                                       !.outcome = IF marker THEN "ok" ELSE "none"]
         /\ rpc' = AfterMarker(marker)
    /\ UNCHANGED <<outer, files, pc, cycle_start, success, resources, pending, result,
                   locals, trace, history>>

\* The waits of perform_login that may time out.
LoginFailPoints == {"none", "email", "password", "marker"}

\* perform_login: what it typed and clicked, and whether it returned True.
\* prefilled: the email input is readonly and already holds a value.
perform_login(prefilled, fail_at) ==
    [ok |-> fail_at = "none",
     typed |-> (IF fail_at # "email" /\ ~prefilled THEN {"identity"} ELSE {})
                 \cup (IF fail_at \in {"none", "marker"} THEN {"secret"} ELSE {}),
     clicked |-> IF fail_at \in {"none", "marker"} THEN {"submit"} ELSE {}]

PerformLogin ==
    /\ rpc = "login"
    /\ \E prefilled \in BOOLEAN, fail_at \in LoginFailPoints :
         LET r == perform_login(prefilled, fail_at)
         IN  /\ session' = [session EXCEPT !.typed = r.typed, !.clicked = r.clicked,
                                           !.outcome = IF r.ok THEN "ok" ELSE "failed"]
             /\ rpc' = IF r.ok THEN "save_state" ELSE "session_done"
             /\ trace' = IF r.ok THEN trace ELSE Append(trace, Event("timeout", fail_at))
    /\ UNCHANGED <<outer, files, pc, cycle_start, success, resources, pending, result,
                   locals, history>>

\* setup_session where a failed write of the state file fails the session
AfterStorageStateFatal(ok, write) == ok /\ write = "ok"

\* setup_session after context.storage_state: the except around the write
\* only prints, and the function returns ok
AfterStorageState(ok, write) == ok

\* context.storage_state(path=...) after a successful login
SaveStorageState ==
    /\ rpc = "save_state"
    /\ \E write \in {"ok", "error"} :
         /\ state_file' = IF write = "ok" THEN StateFileBy(sessions) ELSE state_file
         /\ session' = [session EXCEPT
                          !.wrote = (write = "ok"),
                          !.outcome = IF AfterStorageState(session.outcome = "ok", write)
                                        THEN "ok" ELSE "failed"]
    /\ rpc' = "session_done"
    /\ UNCHANGED <<outer, db_file, pc, cycle_start, success, resources, pending, result,
                   locals, trace, history>>

\* run_once that goes on whatever setup_session returned
AfterSessionGoesOn(outcome) == "load"

\* if not setup_session(context, page): return False. Where run_once
\* continues after the call.
AfterSession(outcome) == IF outcome = "ok" THEN "load" ELSE "with_exit"

\* if not setup_session(context, page): return False
SessionReturn ==
    /\ rpc = "session_done"
    /\ rpc' = AfterSession(session.outcome)
    /\ IF session.outcome = "ok"
         THEN UNCHANGED <<pending, trace>>
         ELSE /\ pending' = "false"
              /\ trace' = Append(trace, Event("session", "failed"))
    /\ session' = NoSession
    /\ UNCHANGED <<outer, files, pc, cycle_start, success, resources, result, locals, history>>

\* The outcomes of reading the file that load_seen_projects tells apart: a
\* file that is missing is not opened, and one that holds no list gives []
\* whether or not the read raises.
ReadOutcomes(file) == IF file.kind = "list" THEN {"ok", "error"} ELSE {"ok"}

LoadSeen ==
    /\ rpc = "load"
    /\ \E read \in ReadOutcomes(db_file) :
         /\ seen_projects' = load_seen_projects(db_file, read)
         /\ trace' = Append(trace, Event("load", read))
    /\ rpc' = "scan"
    /\ UNCHANGED <<outer, files, pc, cycle_start, success, resources, pending, result,
                   all_projects, new_projects, idx, session, history>>

\* run_once where an empty extraction is a failure
AfterScanEmptyFails(projects) == IF projects = <<>> THEN "false" ELSE "none"

\* if not all_projects: return True. What run_once returns right after the
\* extraction, "none" when it goes on.
AfterScan(projects) == IF projects = <<>> THEN "true" ELSE "none"

\* all_projects = scan_for_projects(page); if not all_projects: return True
Scan ==
    /\ rpc = "scan"
    /\ \E wait \in {"ok", "timeout", "error"} :
         \E cards \in (IF wait = "ok" THEN Pages ELSE {<<>>}) :
         /\ all_projects' = scan_for_projects(cards, wait)
         /\ trace' = Append(trace, Event("scan", wait))
         /\ IF AfterScan(all_projects') # "none"
              THEN rpc' = "with_exit" /\ pending' = AfterScan(all_projects')
              ELSE rpc' = "filter" /\ UNCHANGED pending
    /\ UNCHANGED <<outer, files, pc, cycle_start, success, resources, result,
                   seen_projects, new_projects, idx, session, history>>

Filter ==
    /\ rpc = "filter"
    /\ new_projects' = filter_new_projects(all_projects, seen_projects)
    /\ idx' = 1
    /\ IF new_projects' = <<>>
         THEN rpc' = "with_exit" /\ pending' = "true"
         ELSE rpc' = "notify" /\ UNCHANGED pending
    /\ UNCHANGED <<outer, files, pc, cycle_start, success, resources, result,
                   seen_projects, all_projects, session, trace, history>>

\* A loop that gives up on the record after a failed notification
AfterNotificationSkip(i, sent) == IF sent THEN i + 1 ELSE i + 2

\* The loop position after send_notification(project) returned sent.
AfterNotification(i, sent) == i + 1

\* One turn of the for loop: send_notification, then seen_projects.append.
Notify ==
    /\ rpc = "notify"
    /\ idx <= Len(new_projects)
    /\ \E sent \in BOOLEAN :
         /\ trace' = Append(trace, Event("notify", new_projects[idx].id))
         /\ seen_projects' = Append(seen_projects, new_projects[idx])
         /\ idx' = AfterNotification(idx, sent)
    /\ UNCHANGED <<outer, files, pc, cycle_start, success, rpc, resources, pending, result,
                   all_projects, new_projects, session, history>>

\* save_seen_projects(seen_projects) after the loop, then return True
Save ==
    /\ rpc = "notify"
    /\ idx > Len(new_projects)
    /\ \E write \in {"ok", "open_error", "dump_error"} :
         /\ db_file' = save_seen_projects(seen_projects, db_file, write)
         /\ trace' = Append(trace, Event("save", write))
    /\ pending' = "true"
    /\ rpc' = "with_exit"
    /\ UNCHANGED <<outer, state_file, pc, cycle_start, success, resources, result,
                   locals, session, history>>

\* an engine whose end leaves its resources as they are
KillNothing(r) == r

\* What the end of the automation engine does to a resource it owns.
Kill(r) == IF r = "open" THEN "dead" ELSE r

\* Control leaves the with block: sync_playwright().__exit__ stops the engine
\* before the handlers and the finally clause of the enclosing try run.
WithExit ==
    /\ rpc = "with_exit"
    /\ engine' = "stopped"
    /\ browser' = Kill(browser) /\ context' = Kill(context) /\ page' = Kill(page)
    /\ trace' = Append(trace, Event("release", "engine"))
    /\ IF pending \in {"timeout", "error"}
         THEN rpc' = "except" /\ UNCHANGED result
         ELSE rpc' = "finally" /\ result' = pending
    /\ UNCHANGED <<outer, files, pc, cycle_start, success, pending, locals, session, history>>

\* except PlaywrightTimeoutError / except Exception: return False
Handler ==
    /\ rpc = "except"
    /\ result' = "false"
    /\ rpc' = "finally"
    /\ UNCHANGED <<outer, files, pc, cycle_start, success, resources, pending, locals,
                   session, trace, history>>

\* r.close() inside try/except Exception: pass; None is skipped
CloseAttempt(r, raised) == IF r = "open" /\ ~raised THEN "closed" ELSE r

\* The close calls of the finally clause, in the order it makes them. raised
\* says for each level whether its close raises.
CloseCalls(pg, ctx, br, raised) ==
    (IF pg = "none" THEN <<>> ELSE <<Event("close", "page")>>)
      \o (IF ctx = "none" THEN <<>> ELSE <<Event("close", "context")>>)
      \o (IF br = "none" THEN <<>> ELSE <<Event("close", "browser")>>)

\* finally: close the page, the context, the browser
Finally ==
    /\ rpc = "finally"
    /\ \E raised \in [{"page", "context", "browser"} -> BOOLEAN] :
         /\ page' = CloseAttempt(page, raised["page"])
         /\ context' = CloseAttempt(context, raised["context"])
         /\ browser' = CloseAttempt(browser, raised["browser"])
         /\ trace' = trace \o CloseCalls(page, context, browser, raised)
    /\ rpc' = "done"
    /\ UNCHANGED <<outer, files, pc, cycle_start, success, engine, pending, result, locals,
                   session, history>>

\* success = run_once(), False when it raised
Outcome(r) == r = "true"

\* worker_loop without the try around the call
AfterRunOnceUncaught(r) == IF r = "raise" THEN "crashed" ELSE "schedule"

\* Where worker_loop continues after the call: the try around it catches
\* what run_once raises.
AfterRunOnce(r) == "schedule"

\* No read or write of the seen store failed in the cycle, and the page loaded.
Clean(tr) ==
    /\ \E k \in 1..Len(tr) : tr[k] = Event("scan", "ok")
    /\ \A k \in 1..Len(tr) :
         /\ tr[k].e = "load" => tr[k].a = "ok"
         /\ tr[k].e = "save" => tr[k].a = "ok"

\* no read or write of the seen store failed in the cycle
IoOk(tr) == \A k \in 1..Len(tr) : tr[k].e \in {"load", "save"} => tr[k].a = "ok"

\* worker_loop after run_once: the call returned or raised; count the cycle
RunOnceReturn ==
    /\ pc = "cycle"
    /\ rpc = "done"
    /\ success' = Outcome(result)
    /\ cycle_count' = cycle_count + 1
    /\ now' = now + cycle_seconds
    /\ pc' = AfterRunOnce(result)
    /\ rpc' = "idle"
    /\ prev' = IF Clean(trace) THEN [ran |-> TRUE, all |-> all_projects] ELSE NoPrev
    /\ leaked' = (leaked \/ "open" \in {browser, context, page})
    /\ told' = IF told.ok /\ IoOk(trace)
                 THEN [told EXCEPT !.ids = @ \cup {trace[k].a : k \in
                                                    {j \in 1..Len(trace) : trace[j].e = "notify"}}]
                 ELSE [ok |-> FALSE, ids |-> {}]
    /\ trace' = <<>>
    /\ pending' = "none"
    /\ engine' = "off" /\ browser' = "none" /\ context' = "none" /\ page' = "none"
    /\ seen_projects' = <<>> /\ all_projects' = <<>> /\ new_projects' = <<>> /\ idx' = 0
    /\ UNCHANGED <<call, cfg, cycle_seconds, files, start_time, cycle_start, backoff_seconds,
                   consecutive_failures, sleep_for, uptime, exit_status, result, session,
                   sessions>>

Next ==
    \/ Main
    \/ CycleStart
    \/ Acquire
    \/ SessionGoto
    \/ IsLoggedIn
    \/ PerformLogin
    \/ SaveStorageState
    \/ SessionReturn
    \/ LoadSeen
    \/ Scan
    \/ Filter
    \/ Notify
    \/ Save
    \/ WithExit
    \/ Handler
    \/ Finally
    \/ RunOnceReturn
    \/ Schedule
    \/ WatchdogUptime
    \/ WatchdogCycles
    \/ WatchdogPass
    \/ Sleep

Spec == Init /\ [][Next]_vars

\* A first run of the worker on a host with slow cycles: no seen store and no
\* session state yet.
FirstRun ==
    /\ Init
    /\ db_file = NoFile
    /\ state_file = NoStateFile
    /\ cycle_seconds = LongCycle

\* Every bounded wait and every sleep returns: the one thread of the worker
\* takes its next step.
FairSpec == FirstRun /\ [][Next]_vars /\ WF_vars(Next)

\* ------------------------------------------------------------------------
\* The functions of the program applied on their own, to every argument of a
\* bounded set
\* ------------------------------------------------------------------------
\* longest argument list of a call
MaxArgs == 3

\* What a list handed to filter_new_projects may hold: a non-dict, a dict
\* without id, and records.
Entries ==
    {[dict |-> FALSE, id |-> "", title |-> ""], Project("", "A")}
      \cup {Project(i, "A") : i \in Ids}

FilterCalls ==
    {[NoCall EXCEPT !.fn = "filter", !.all = a, !.seen = sn] :
        a \in SeqsUpTo(Entries, MaxArgs), sn \in SeqsUpTo(Entries, MaxArgs - 1)}

\* every card, handed to extract_project_data_from_card
ExtractCalls ==
    {[NoCall EXCEPT !.fn = "extract", !.cards = <<c>>] : c \in Cards}

\* cards on a page handed to scan_for_projects
MaxPage == 2

\* The cards of those pages: the cards with .need-card-inline that have a
\* blank title or a text, no like button or a need id, and any fault; and a
\* card without .need-card-inline, sound or stale.
PageCards ==
    {c \in Cards :
        /\ c.title # "" /\ c.ajax # <<"need">>
        /\ c.inline \/ (/\ c.title = "A" /\ c.ajax = <<"need", "p1", "like">>
                        /\ c.fault \in {"none", "stale"})}

\* every page of up to MaxPage cards with the marker on it, and the waits for
\* the marker that fail
ScanCalls ==
    {[NoCall EXCEPT !.fn = "scan", !.cards = cs] : cs \in SeqsUpTo(PageCards, MaxPage)}
      \cup {[NoCall EXCEPT !.fn = "scan", !.wait = w] : w \in {"timeout", "error"}}

Calls == FilterCalls \cup ExtractCalls \cup ScanCalls

\* the worker is not running
InitCalls ==
    /\ call \in Calls
    /\ cfg = [env_ok |-> TRUE, WATCHDOG_RESTART_SECONDS |-> 0, WATCHDOG_MAX_CYCLES |-> 0]
    /\ db_file = NoFile
    /\ state_file = NoStateFile
    /\ now = 0
    /\ cycle_seconds = ShortCycle
    /\ pc = "start"
    /\ start_time = 0 /\ cycle_start = 0 /\ cycle_count = 0
    /\ backoff_seconds = 0 /\ consecutive_failures = 0
    /\ success = FALSE /\ sleep_for = 0 /\ uptime = 0
    /\ exit_status = 0
    /\ rpc = "idle"
    /\ engine = "off" /\ browser = "none" /\ context = "none" /\ page = "none"
    /\ pending = "none" /\ result = "none"
    /\ seen_projects = <<>> /\ all_projects = <<>> /\ new_projects = <<>> /\ idx = 0
    /\ session = NoSession
    /\ trace = <<>>
    /\ prev = NoPrev
    /\ sessions = 0
    /\ leaked = FALSE
    /\ told = NoneTold

program == <<cfg, db_file, state_file, now, cycle_seconds, supervisor, cycle_vars>>

CallFilter ==
    /\ call.fn = "filter"
    /\ ~call.done
    /\ call' = [call EXCEPT !.out = filter_new_projects(call.all, call.seen), !.done = TRUE]
    /\ UNCHANGED program

CallExtract ==
    /\ call.fn = "extract"
    /\ ~call.done
    /\ call' = [call EXCEPT !.out = extract_project_data_from_card(call.cards[1]),
                            !.done = TRUE]
    /\ UNCHANGED program

CallScan ==
    /\ call.fn = "scan"
    /\ ~call.done
    /\ call' = [call EXCEPT !.out = scan_for_projects(call.cards, call.wait), !.done = TRUE]
    /\ UNCHANGED program

CallNext ==
    \/ CallFilter
    \/ CallExtract
    \/ CallScan

CallSpec == InitCalls /\ [][CallNext]_vars

\* ------------------------------------------------------------------------
\* Properties
\* ------------------------------------------------------------------------
IdsOf(projects) == {projects[k].id : k \in {j \in 1..Len(projects) : projects[j].dict}} \ {""}

\* no two entries of projects carry the same id
NoDuplicateIds(projects) ==
    \A j, k \in 1..Len(projects) :
        (j # k /\ projects[j].dict /\ projects[k].dict /\ projects[j].id # "")
            => projects[j].id # projects[k].id

Positions(tr, e) == {k \in 1..Len(tr) : tr[k].e = e}

\* the ids send_notification was called with in the cycle, in call order
RECURSIVE Notified(_)
Notified(tr) ==
    IF tr = <<>> THEN <<>>
    ELSE IF Head(tr).e = "notify" THEN <<Head(tr).a>> \o Notified(Tail(tr))
    ELSE Notified(Tail(tr))

RECURSIVE IdSeq(_)
IdSeq(projects) ==
    IF projects = <<>> THEN <<>> ELSE <<Head(projects).id>> \o IdSeq(Tail(projects))

\* the delay of the k-th failure in a row: 120, 240, 480, 900, 900, ...
ExpectedDelay(k) ==
    CASE k = 1 -> 120
      [] k = 2 -> 240
      [] k = 3 -> 480
      [] OTHER -> 900

\* C1: after a failed cycle the worker sleeps the delay of the run of failures
\* it is in (120, 240, 480, then 900 for every further failure) and holds the
\* next delay of that run; after a successful cycle the run is over, so the
\* next failure sleeps 120 again.
C1_BackoffSequence ==
    pc \in {"watchdog", "sleep"} =>
        IF success
          THEN consecutive_failures = 0 /\ backoff_seconds = ExpectedDelay(1)
          ELSE /\ consecutive_failures >= 1
               /\ sleep_for = ExpectedDelay(consecutive_failures)
               /\ backoff_seconds = ExpectedDelay(consecutive_failures + 1)

C1_Witness ==
    pc = "sleep" /\ ~success /\ consecutive_failures = 4 /\ sleep_for = 900

\* the seen store as load_seen_projects returned it in this cycle
Loaded == SubSeq(seen_projects, 1, Len(seen_projects) - Len(Notified(trace)))

\* C2: when the extraction of this cycle is the extraction of the previous
\* cycle plus one record with a new id (and no read or write of the store
\* failed in either), the cycle calls send_notification exactly once, for that
\* record, and the persisted store holds every extracted id with no id twice.
C2_OneNotificationAndUnion ==
    (/\ rpc = "done" /\ prev.ran /\ Clean(trace)
     /\ Len(all_projects) = Len(prev.all) + 1
     /\ SubSeq(all_projects, 1, Len(prev.all)) = prev.all
     /\ all_projects[Len(all_projects)].id \notin IdsOf(prev.all) \cup IdsOf(Loaded))
    => /\ Notified(trace) = <<all_projects[Len(all_projects)].id>>
       /\ db_file.kind = "list"
       /\ IdsOf(all_projects) \subseteq IdsOf(db_file.data)
       /\ NoDuplicateIds(db_file.data)

\* C3: neither the list handed to save_seen_projects nor the persisted file
\* holds two records with the same id.
C3_UniqueIds ==
    /\ NoDuplicateIds(seen_projects)
    /\ db_file.kind = "list" => NoDuplicateIds(db_file.data)

\* C4: the notifications of a cycle are the new records, one call each, in
\* extraction order, whatever the calls returned; the store is written once,
\* after the last of them, and never between two of them.
C4_NotifyAllThenSave ==
    LET sent == Notified(trace)
        saves == Positions(trace, "save")
    IN  /\ Len(sent) <= Len(new_projects)
        /\ sent = IdSeq(SubSeq(new_projects, 1, Len(sent)))
        /\ Cardinality(saves) <= 1
        /\ \A sv \in saves :
              /\ Len(sent) = Len(new_projects)
              /\ \A n \in Positions(trace, "notify") : n < sv
        /\ (rpc \in {"with_exit", "except", "finally", "done"} /\ new_projects # <<>>)
              => (Len(sent) = Len(new_projects) /\ saves # {})

C4_Witness ==
    /\ rpc = "done"
    /\ Len(new_projects) >= 2
    /\ Positions(trace, "save") # {}

\* a bounded wait of the cycle ran into its timeout
TimedOut(tr) ==
    \E k \in 1..Len(tr) : tr[k].e = "timeout" \/ tr[k] = Event("scan", "timeout")

\* C5: a cycle in which a bounded wait timed out returns Failure.
C5_TimeoutIsFailure ==
    (rpc = "done" /\ TimedOut(trace)) => result = "false"

\* page 1, context 2, process level (browser, automation engine) 3
Level(ev) ==
    CASE ev = Event("close", "page") -> 1
      [] ev = Event("close", "context") -> 2
      [] OTHER -> 3

\* C6: every cycle that acquired something releases it before it returns, in
\* the order page, context, process level, and returns the outcome it had.
C6_CleanupOrder ==
    LET rel == Positions(trace, "close") \cup Positions(trace, "release")
    IN  /\ \A j, k \in rel : j < k => Level(trace[j]) <= Level(trace[k])
        /\ rpc = "done" =>
              /\ page # "none" => Event("close", "page") \in {trace[k] : k \in rel}
              /\ context # "none" => Event("close", "context") \in {trace[k] : k \in rel}
              /\ browser # "none" => Event("close", "browser") \in {trace[k] : k \in rel}

\* C7: with an uptime ceiling T > 0 the worker goes on after a cycle only while
\* the uptime at the end of that cycle is below T; it exits only between
\* cycles, after at least one cycle, and when the cycle ceiling is not the
\* cause the uptime has reached T; after the exit nothing runs.
C7_UptimeWatchdog ==
    (validate_env(cfg) /\ cfg.WATCHDOG_RESTART_SECONDS > 0) =>
        /\ pc = "sleep" => now - start_time < cfg.WATCHDOG_RESTART_SECONDS
        /\ pc \in {"loop", "cycle", "schedule", "watchdog"} =>
              uptime < cfg.WATCHDOG_RESTART_SECONDS
        /\ pc = "exit" =>
              /\ rpc = "idle" /\ cycle_count >= 1
              /\ "open" \notin {browser, context, page} /\ engine # "running"
              /\ ~CyclesExceeded(cfg, cycle_count) =>
                    now - start_time >= cfg.WATCHDOG_RESTART_SECONDS
              /\ ~ENABLED CycleStart

C7_Witness ==
    /\ pc = "exit" /\ validate_env(cfg)
    /\ cfg.WATCHDOG_RESTART_SECONDS > 0
    /\ now - start_time >= cfg.WATCHDOG_RESTART_SECONDS
    /\ ~CyclesExceeded(cfg, cycle_count)
    /\ success

ExitByCycles ==
    pc = "exit" /\ validate_env(cfg) /\ ~UptimeExceeded(cfg, now - start_time)

\* C8 as stated: the cycle watchdog ends the process once the count of
\* completed cycles exceeds N, and not before.
C8_ExceedsCeiling ==
    ExitByCycles => cycle_count > cfg.WATCHDOG_MAX_CYCLES

\* C8 amended: with N > 0 and the uptime ceiling not reached the worker goes on
\* only while fewer than N cycles are completed and exits, between cycles,
\* when the count reaches N; with N = 0 the count never ends the process.
C8_ReachesCeiling ==
    validate_env(cfg) =>
        /\ (cfg.WATCHDOG_MAX_CYCLES > 0 /\ pc = "sleep") =>
              cycle_count < cfg.WATCHDOG_MAX_CYCLES
        /\ ExitByCycles =>
              /\ cfg.WATCHDOG_MAX_CYCLES > 0
              /\ cycle_count = cfg.WATCHDOG_MAX_CYCLES
              /\ rpc = "idle"

C8_Witness ==
    ExitByCycles /\ cycle_count = cfg.WATCHDOG_MAX_CYCLES

\* C9: whatever run_once did, returned or raised, the worker goes on to the
\* scheduling step with a boolean outcome; the process ends only by the
\* watchdog, with status 1, or with status 1 before any cycle when a required
\* configuration value is missing.
C9_OnlyWatchdogExits ==
    /\ pc \in {"start", "loop", "cycle", "schedule", "watchdog", "sleep", "exit"}
    /\ (pc = "exit") = (exit_status # 0)
    /\ pc = "schedule" =>
          /\ result \in {"true", "false", "raise"}
          /\ success = (result = "true")
    /\ ~validate_env(cfg) => (pc \in {"start", "exit"} /\ cycle_count = 0 /\ rpc = "idle")
    /\ pc = "exit" =>
          /\ exit_status = 1
          /\ validate_env(cfg) =>
                /\ cycle_count >= 1
                /\ \/ UptimeExceeded(cfg, now - start_time)
                   \/ CyclesExceeded(cfg, cycle_count)

C9_Witness ==
    pc = "schedule" /\ result = "raise" /\ ~success

\* C10: when the marker shows on the restored session, setup_session returns
\* True having typed nothing and clicked nothing, and the session-state file
\* still is the one an earlier session (or an earlier run) wrote; the file
\* changes nowhere but in the save that follows a successful login.
C10_ReuseSkipsLogin ==
    /\ [](  (rpc = "session_done" /\ session.marker) =>
              /\ session.restored /\ session.outcome = "ok"
              /\ session.typed = {} /\ session.clicked = {}
              /\ ~session.wrote
              /\ state_file.exists /\ state_file.by < sessions )
    /\ [][ state_file' # state_file => (rpc = "save_state" /\ session.outcome = "ok"
                                         /\ ~session.marker) ]_vars

C10_Witness ==
    rpc = "session_done" /\ session.marker /\ session.outcome = "ok"

\* C11: the session-state file is written exactly in the cycles whose login
\* succeeded. Every successful perform_login goes on to the write; a write that
\* succeeds makes the file this session's, a write that fails leaves the file
\* as it was and the session Authenticated all the same; a reused session and
\* a failed login never get to the write, and nothing else changes the file.
C11_StateFileWritten ==
    /\ [](rpc = "session_done" =>
            /\ session.wrote <=> state_file = StateFileBy(sessions)
            /\ session.wrote =>
                  (session.outcome = "ok" /\ ~session.marker /\ "secret" \in session.typed)
            /\ (session.outcome = "failed" \/ session.marker) => ~session.wrote)
    /\ [](rpc = "save_state" => (session.outcome = "ok" /\ ~session.marker))
    /\ [][(rpc = "login" /\ session'.outcome = "ok") => rpc' = "save_state"]_vars
    /\ [][rpc = "save_state" =>
            /\ rpc' = "session_done" /\ session'.outcome = "ok"
            /\ state_file' = IF session'.wrote THEN StateFileBy(sessions) ELSE state_file]_vars
    /\ [][rpc # "save_state" => state_file' = state_file]_vars

\* the login succeeded, the write of the state file failed
C11_Witness ==
    /\ rpc = "session_done" /\ session.outcome = "ok"
    /\ ~session.marker /\ ~session.wrote /\ "secret" \in session.typed

\* a is b with some of its elements left out
RECURSIVE IsSubSeq(_, _)
IsSubSeq(a, b) ==
    IF a = <<>> THEN TRUE
    ELSE IF b = <<>> THEN FALSE
    ELSE IF Head(a) = Head(b) THEN IsSubSeq(Tail(a), Tail(b))
    ELSE IsSubSeq(a, Tail(b))

\* C12: filter_new_projects(all, seen) returns no record whose id is the id of
\* a record in seen, returns records of all in the order they have in all, and
\* applied again, to the same arguments or to its own result, returns the same.
C12_FilterNew ==
    (call.fn = "filter" /\ call.done) =>
        /\ \A k \in 1..Len(call.out) : call.out[k].id \notin IdsOf(call.seen)
        /\ IsSubSeq(call.out, call.all)
        /\ filter_new_projects(call.all, call.seen) = call.out
        /\ filter_new_projects(call.out, call.seen) = call.out

\* two records are kept in their order, one before them is dropped as seen
C12_Witness ==
    /\ call.fn = "filter" /\ call.done
    /\ call.all = <<Project("p1", "A"), Project("p2", "A"), Project("p2", "A")>>
    /\ call.seen = <<Project("p1", "A")>>
    /\ call.out = <<Project("p2", "A"), Project("p2", "A")>>

\* the card has the two required fields: a title that is not blank and a like
\* button whose attribute holds a need id
HasRequired(card) ==
    /\ card.title \notin {"", " "}
    /\ \E i \in Ids : card.ajax = <<"need", i, "like">>

\* C13: a card with its id and its title yields a record also when the read of
\* one optional field fails.
C13_OptionalFieldFailure ==
    (/\ call.fn = "extract" /\ call.done
     /\ call.cards[1].inline /\ HasRequired(call.cards[1])
     /\ call.cards[1].fault = "optional")
    => /\ Len(call.out) = 1
       /\ call.out[1].id = call.cards[1].ajax[2]
       /\ call.out[1].title = call.cards[1].title

\* C14: a card that raises on every access is the only card scan_for_projects
\* loses: the result is what the page without its stale cards gives.
C14_StaleCardDropsOnlyItself ==
    (call.fn = "scan" /\ call.done /\ call.wait = "ok") =>
        LET sound(c) == c.fault # "stale"
        IN  call.out = ScanCards(SelectSeq(call.cards, sound))

\* C15: every record scan_for_projects returns has an id and a title that is
\* not blank, and is the record of a card of the page that has both; a card
\* whose title is blank or whose like button is missing or holds no need id
\* gives no record, whatever else is on it.
C15_RequiredFields ==
    /\ (call.fn = "scan" /\ call.done) =>
          /\ \A k \in 1..Len(call.out) :
                /\ call.out[k].dict
                /\ call.out[k].id # "" /\ call.out[k].title \notin {"", " "}
                /\ \E j \in 1..Len(call.cards) :
                      /\ call.cards[j].inline /\ HasRequired(call.cards[j])
                      /\ call.out[k].id = call.cards[j].ajax[2]
                      /\ call.out[k].title = call.cards[j].title
          /\ Len(call.out) <=
                Cardinality({j \in 1..Len(call.cards) :
                               call.cards[j].inline /\ HasRequired(call.cards[j])})
    /\ (call.fn = "extract" /\ call.done /\ ~HasRequired(call.cards[1])) =>
          call.out = <<>>

\* of two sound cards the one with the blank title is left out
C15_Witness ==
    /\ call.fn = "scan" /\ call.done
    /\ Len(call.cards) = 2 /\ Len(call.out) = 1
    /\ \A j \in 1..2 : call.cards[j].inline /\ call.cards[j].fault = "none"
    /\ \A j \in 1..2 : Len(call.cards[j].ajax) = 3
    /\ call.cards[1].title = " "

\* the records of a persisted list
Records(d) == LET valid(p) == p.dict /\ p.id # "" IN SelectSeq(d, valid)

IsPrefix(a, b) == Len(a) <= Len(b) /\ SubSeq(b, 1, Len(a)) = a

\* C16: whenever a cycle writes the seen store over a persisted list, the
\* records persisted before are a prefix of the records persisted after, also
\* when the read of the store failed in that cycle.
C16_AppendOnly ==
    [][(db_file.kind = "list" /\ db_file'.kind = "list")
          => IsPrefix(Records(db_file.data), Records(db_file'.data))]_vars

\* C17: load_seen_projects returns a list of dicts whatever the file holds,
\* the empty list for a missing file, a file that is not JSON and a JSON value
\* that is not a list; what filter_new_projects then keeps are records, and a
\* cycle that got to the load returns True.
C17_LoadNeverFails ==
    /\ rpc \in {"scan", "filter", "notify"} =>
          /\ \A k \in 1..Len(Loaded) : Loaded[k].dict
          /\ db_file.kind # "list" => Loaded = <<>>
          /\ (db_file.kind = "list" /\ trace[1] = Event("load", "ok")) =>
                Loaded = LET isdict(p) == p.dict IN SelectSeq(db_file.data, isdict)
    /\ \A k \in 1..Len(new_projects) : new_projects[k].dict /\ new_projects[k].id # ""
    /\ (rpc = "with_exit" /\ Positions(trace, "load") # {}) => pending = "true"
    /\ (rpc \in {"finally", "done"} /\ Positions(trace, "load") # {}) => result = "true"

\* the file holds a JSON object; the store was loaded as empty and the
\* extraction is about to be filtered against it
C17_Witness ==
    /\ rpc = "filter" /\ db_file.kind = "object"
    /\ seen_projects = <<>> /\ all_projects # <<>>

\* C18: a cycle whose session was established and whose extraction is empty
\* returns True without a notification and without a write of the seen store,
\* and worker_loop then has no failure counted, the base delay as its backoff
\* and the rest of the normal interval to sleep.
C18_EmptyIsSuccess ==
    /\ (rpc \in {"with_exit", "finally", "done"}
          /\ Positions(trace, "scan") # {} /\ all_projects = <<>>) =>
          /\ Notified(trace) = <<>>
          /\ Positions(trace, "save") = {}
          /\ new_projects = <<>>
          /\ IF rpc = "with_exit" THEN pending = "true" ELSE result = "true"
    /\ (pc \in {"schedule", "watchdog", "sleep"} /\ prev.ran /\ prev.all = <<>>) =>
          /\ success
          /\ pc # "schedule" =>
                /\ consecutive_failures = 0
                /\ backoff_seconds = BaseBackoff
                /\ sleep_for = Max(0, CheckInterval - cycle_seconds)

\* after two failures a cycle found the dashboard empty: the backoff is reset
C18_Witness ==
    /\ pc = "sleep" /\ prev.ran /\ prev.all = <<>>
    /\ cycle_count = 3 /\ consecutive_failures = 0
    /\ backoff_seconds = BaseBackoff

\* C19: a cycle whose setup_session returned False goes straight to the
\* cleanup and returns False: it neither loads the seen store nor extracts,
\* notifies or saves, and it leaves the session-state file to the session
\* that wrote it before; the seen-store file changes in the save step only.
C19_FailedSessionTouchesNothing ==
    /\ [](Positions(trace, "session") # {} =>
            /\ rpc \in {"with_exit", "finally", "done"}
            /\ Positions(trace, "load") = {} /\ Positions(trace, "scan") = {}
            /\ Positions(trace, "notify") = {} /\ Positions(trace, "save") = {}
            /\ seen_projects = <<>> /\ all_projects = <<>> /\ new_projects = <<>>
            /\ state_file # StateFileBy(sessions)
            /\ IF rpc = "with_exit" THEN pending = "false" ELSE result = "false"
            /\ rpc = "done" =>
                  /\ "open" \notin {page, context, browser}
                  /\ Positions(trace, "close") # {})
    /\ [][db_file' # db_file => (rpc = "notify" /\ Positions(trace, "session") = {})]_vars
    /\ [][state_file' # state_file => Positions(trace', "session") = {}]_vars

\* the login timed out and the cycle returned False after its cleanup
C19_Witness ==
    /\ rpc = "done" /\ result = "false"
    /\ Positions(trace, "session") # {}
    /\ Event("timeout", "password") \in {trace[k] : k \in 1..Len(trace)}

\* C20: one cycle at a time, each with its own browser, context and page: a
\* cycle is in progress exactly while worker_loop is inside its call of
\* run_once, a cycle starts with no browser, context or page, none that it
\* opened is open when it returns, and none ever outlived its cycle, whether
\* or not the close calls raised.
C20_SerialCycles ==
    /\ (pc = "cycle") = (rpc # "idle")
    /\ ~leaked
    /\ rpc \in {"idle", "acquire"} =>
          (engine = "off" /\ browser = "none" /\ context = "none" /\ page = "none")
    /\ rpc = "done" => (engine # "running" /\ "open" \notin {browser, context, page})

\* a cycle starts after a cycle that had opened a page
C20_Witness ==
    /\ rpc = "acquire" /\ cycle_count >= 1 /\ sessions >= 1
    /\ page = "none" /\ context = "none" /\ browser = "none"

\* C21: as long as no read and no write of the seen store has failed,
\* send_notification is called at most once for an id: not twice in a cycle,
\* and not in a cycle after one that called it for that id.
C21_NotifiedAtMostOnce ==
    (told.ok /\ IoOk(trace)) =>
        LET n == Notified(trace)
        IN  /\ \A j, k \in 1..Len(n) : j # k => n[j] # n[k]
            /\ \A k \in 1..Len(n) : n[k] \notin told.ids

\* C22: every cycle that started reaches the end of its cleanup and returns
\* to worker_loop, and after every cycle the process either exits by the
\* watchdog or starts the next cycle (the last cycle the model follows ends at
\* the head of the loop), however many cycles failed before.
C22_Progress ==
    /\ (pc = "cycle") ~> (rpc = "done")
    /\ (rpc = "done") ~> (pc = "schedule")
    /\ (pc = "schedule") ~>
          (pc = "exit" \/ pc = "cycle" \/ (pc = "loop" /\ cycle_count >= MaxCycles))

\* a cycle starts after three failures in a row
C22_Witness ==
    /\ pc = "cycle" /\ rpc = "acquire"
    /\ consecutive_failures = 3 /\ sleep_for = 480

====
